---------------------------- MODULE Spec2Model ----------------------------
(***************************************************************************)
(* Model of cli-task-manager (src/cli-task-manager/src/main.rs): a         *)
(* command-line task tracker that keeps its tasks in the file tasks.json.  *)
(* Every command loads the whole file, works on the loaded vector and, if  *)
(* it changed something, writes the whole file back.                       *)
(*                                                                         *)
(* Text (file contents, descriptions, queries, formatted numbers) is a     *)
(* sequence of one-character strings.  A u32 is a pair <<hi, lo>> of       *)
(* 16-bit halves, so that the full 32-bit range is represented exactly.    *)
(***************************************************************************)
EXTENDS Integers, Sequences, FiniteSets, TLC

(***************************************************************************)
(* u32 arithmetic                                                          *)
(***************************************************************************)
Half == 65536

U32(n) == <<n \div Half, n % Half>>

U32_MAX == <<Half - 1, Half - 1>>

U32Less(a, b) == a[1] < b[1] \/ (a[1] = b[1] /\ a[2] < b[2])

\* a + 1 in u32; overflow is reported, the caller decides what the build does
U32Succ(a) ==
    IF a[2] + 1 < Half THEN <<a[1], a[2] + 1>>
    ELSE IF a[1] + 1 < Half THEN <<a[1] + 1, 0>>
    ELSE <<0, 0>>

\* quotient and remainder of a u32 by ten (long division on the two halves)
U32Div10(a) ==
    LET mid == (a[1] % 10) * Half + a[2]
    IN  <<a[1] \div 10, mid \div 10>>

U32Mod10(a) == ((a[1] % 10) * Half + a[2]) % 10

(***************************************************************************)
(* Characters.  Text is a sequence of bytes (a Rust String is UTF-8).  A   *)
(* printable ASCII byte is written as its character, tab, line feed and    *)
(* carriage return as "\t", "\n" and "\r", and every other byte as "<XX>"  *)
(* with its value in upper-case hexadecimal (so is the grave accent,       *)
(* "<60>", which a string of this language cannot hold).                   *)
(***************************************************************************)
Quote == "\""

Backslash == "\\"

Newline == "\n"

Tab == "\t"

\* the control characters U+0008 and U+000C
Backspace == "<08>"

FormFeed == "<0C>"

\* a byte that no UTF-8 text has (read_to_string rejects the file)
InvalidByte == "<FF>"

Digits == <<"0", "1", "2", "3", "4", "5", "6", "7", "8", "9">>

DigitChars == {Digits[i] : i \in 1..10}

DigitVal(c) == CHOOSE v \in 0..9 : Digits[v + 1] = c

HexUpper ==
    <<"0", "1", "2", "3", "4", "5", "6", "7", "8", "9",
      "A", "B", "C", "D", "E", "F">>

HexLower ==
    <<"0", "1", "2", "3", "4", "5", "6", "7", "8", "9",
      "a", "b", "c", "d", "e", "f">>

HexChars == {HexUpper[i] : i \in 1..16} \cup {HexLower[i] : i \in 1..16}

HexVal(c) == CHOOSE v \in 0..15 : HexUpper[v + 1] = c \/ HexLower[v + 1] = c

\* the printable ASCII characters, U+0020 to U+007E, in the order of their
\* codes
Ascii ==
    <<" ", "!", Quote, "#", "$", "%", "&", "'", "(", ")", "*", "+", ",",
      "-", ".", "/", "0", "1", "2", "3", "4", "5", "6", "7", "8", "9", ":",
      ";", "<", "=", ">", "?", "@", "A", "B", "C", "D", "E", "F", "G", "H",
      "I", "J", "K", "L", "M", "N", "O", "P", "Q", "R", "S", "T", "U", "V",
      "W", "X", "Y", "Z", "[", Backslash, "]", "^", "_", "<60>", "a", "b", "c",
      "d", "e", "f", "g", "h", "i", "j", "k", "l", "m", "n", "o", "p", "q",
      "r", "s", "t", "u", "v", "w", "x", "y", "z", "{", "|", "}", "~">>

\* the byte of value n, 0 to 255
Byte(n) ==
    IF n >= 32 /\ n <= 126 THEN Ascii[n - 31]
    ELSE IF n = 9 THEN Tab
    ELSE IF n = 10 THEN Newline
    ELSE IF n = 13 THEN "\r"
    ELSE "<" \o HexUpper[(n \div 16) + 1] \o HexUpper[(n % 16) + 1] \o ">"

Bytes == [n \in 0..255 |-> Byte(n)]

\* the value of the byte c
ByteVal(c) == CHOOSE n \in 0..255 : Bytes[n] = c

Whitespace == {" ", Newline, Tab, "\r"}

\* U+0000 to U+001F
ControlChars == {Bytes[n] : n \in 0..31}

\* the bytes that are no ASCII character, 0x80 to 0xFF
HighBytes == {Bytes[n] : n \in 128..255}

\* char::encode_utf8: the bytes of the code point n
encode_utf8(n) ==
    IF n < 128 THEN <<Bytes[n]>>
    ELSE IF n < 2048
    THEN <<Bytes[192 + (n \div 64)], Bytes[128 + (n % 64)]>>
    ELSE IF n < 65536
    THEN <<Bytes[224 + (n \div 4096)], Bytes[128 + ((n \div 64) % 64)],
           Bytes[128 + (n % 64)]>>
    ELSE <<Bytes[240 + (n \div 262144)], Bytes[128 + ((n \div 4096) % 64)],
           Bytes[128 + ((n \div 64) % 64)], Bytes[128 + (n % 64)]>>

\* the byte at position i of b has a value from lo to hi
ByteIn(b, i, lo, hi) ==
    i <= Len(b) /\ b[i] \in {Bytes[n] : n \in lo..hi}

\* the position of the first byte from position i of b that is no ASCII
\* character
FirstHigh(b, i) ==
    CHOOSE k \in i..Len(b) :
        b[k] \in HighBytes /\ \A m \in i..(k - 1) : b[m] \notin HighBytes

\* str::from_utf8 from position i of b: the well-formed sequences of one to
\* four bytes, without overlong forms, surrogates or values over U+10FFFF
RECURSIVE Utf8From(_, _)
\* after a lead byte of value n at position i
Utf8After(b, i, n) ==
    IF n >= 194 /\ n <= 223
    THEN ByteIn(b, i + 1, 128, 191) /\ Utf8From(b, i + 2)
    ELSE IF n >= 224 /\ n <= 239
    THEN /\ ByteIn(b, i + 1, IF n = 224 THEN 160 ELSE 128,
                   IF n = 237 THEN 159 ELSE 191)
         /\ ByteIn(b, i + 2, 128, 191)
         /\ Utf8From(b, i + 3)
    ELSE IF n >= 240 /\ n <= 244
    THEN /\ ByteIn(b, i + 1, IF n = 240 THEN 144 ELSE 128,
                   IF n = 244 THEN 143 ELSE 191)
         /\ ByteIn(b, i + 2, 128, 191)
         /\ ByteIn(b, i + 3, 128, 191)
         /\ Utf8From(b, i + 4)
    ELSE FALSE

\* the sequence that starts at position i of b, which is no ASCII character
Utf8Lead(b, i) == Utf8After(b, i, ByteVal(b[i]))

Utf8From(b, i) ==
    IF \A k \in i..Len(b) : b[k] \notin HighBytes THEN TRUE
    ELSE Utf8Lead(b, FirstHigh(b, i))

from_utf8(b) == Utf8From(b, 1)

(***************************************************************************)
(* Display of a u32 ({} in format!, itoa in serde_json): decimal digits,   *)
(* most significant first, no leading zeros, "0" for zero.                 *)
(***************************************************************************)
RECURSIVE U32ToString(_)
U32ToString(a) ==
    IF a[1] = 0 /\ a[2] < 10 THEN <<Digits[a[2] + 1]>>
    ELSE Append(U32ToString(U32Div10(a)), Digits[U32Mod10(a) + 1])

(***************************************************************************)
(* Task (main.rs 52-57) and its JSON encoding.                             *)
(* serde_json::to_writer_pretty (main.rs 79) with its PrettyFormatter:     *)
(* two-space indent, one field per line, "[]" for the empty vector, fields *)
(* in declaration order.  The serializer hands the text to the writer      *)
(* piece by piece: every bracket, separator, level of indent, quote, run   *)
(* of unescaped characters, escape, number and literal is one write_all.   *)
(* The operators named ...Writes give the sequence of these pieces.        *)
(***************************************************************************)
Task(id, description, completed) ==
    [id |-> id, description |-> description, completed |-> completed]

\* the parts one after another (joined by halves)
RECURSIVE Concat(_)
Concat(parts) ==
    IF parts = <<>> THEN <<>>
    ELSE IF Len(parts) = 1 THEN parts[1]
    ELSE Concat(SubSeq(parts, 1, Len(parts) \div 2))
         \o Concat(SubSeq(parts, Len(parts) \div 2 + 1, Len(parts)))

\* variant: nothing is escaped
EscapeChar_raw(c) == <<c>>

\* the escape of the control character c that has no short form: \u00XX,
\* in lower-case hexadecimal
UnicodeEscaped(n) ==
    <<Backslash, "u", "0", "0", HexLower[(n \div 16) + 1],
      HexLower[(n % 16) + 1]>>

\* what format_escaped_str_contents writes for the character c
EscapeChar(c) ==
    CASE c = Quote     -> <<Backslash, Quote>>
      [] c = Backslash -> <<Backslash, Backslash>>
      [] c = Newline   -> <<Backslash, "n">>
      [] c = Tab       -> <<Backslash, "t">>
      [] c = "\r"      -> <<Backslash, "r">>
      [] c = Backspace -> <<Backslash, "b">>
      [] c = FormFeed  -> <<Backslash, "f">>
      [] OTHER         -> IF c \in ControlChars THEN UnicodeEscaped(ByteVal(c))
                          ELSE <<c>>

\* the run of unescaped characters collected so far, as a write (none when
\* it is empty)
RunWrite(run) == IF run = <<>> THEN <<>> ELSE <<run>>

\* format_escaped_str_contents from position i of str: a write for every
\* run of characters that need no escape and one for every escape
RECURSIVE StringContentsWrites(_, _, _)
StringContentsWrites(str, i, run) ==
    IF i > Len(str) THEN RunWrite(run)
    ELSE IF EscapeChar(str[i]) = <<str[i]>>
    THEN StringContentsWrites(str, i + 1, Append(run, str[i]))
    ELSE RunWrite(run) \o <<EscapeChar(str[i])>>
         \o StringContentsWrites(str, i + 1, <<>>)

\* format_escaped_str: the quotes and the contents
StringWrites(str) ==
    <<<<Quote>>>> \o StringContentsWrites(str, 1, <<>>) \o <<<<Quote>>>>

SerializeString(str) == Concat(StringWrites(str))

SerializeBool(b) ==
    IF b THEN <<"t", "r", "u", "e">> ELSE <<"f", "a", "l", "s", "e">>

NameId == <<"i", "d">>

NameDescription == <<"d", "e", "s", "c", "r", "i", "p", "t", "i", "o", "n">>

NameCompleted == <<"c", "o", "m", "p", "l", "e", "t", "e", "d">>

KeyId == <<Quote>> \o NameId \o <<Quote>>

KeyDescription == <<Quote>> \o NameDescription \o <<Quote>>

KeyCompleted == <<Quote>> \o NameCompleted \o <<Quote>>

\* indent(): one write of the two spaces for each level
IndentWrites(level) == [k \in 1..level |-> <<" ", " ">>]

\* begin_array_value and begin_object_key: the line break, after a comma
\* unless the value is the first, and the indent
BeginWrites(first, level) ==
    <<IF first THEN <<Newline>> ELSE <<",", Newline>>>> \o IndentWrites(level)

\* a field of the struct up to its value: the key and ": "
KeyWrites(first, name) ==
    BeginWrites(first, 2) \o StringWrites(name) \o <<<<":", " ">>>>

\* end_object and end_array: the line break, the indent and the bracket
EndWrites(level, bracket) ==
    <<<<Newline>>>> \o IndentWrites(level) \o <<<<bracket>>>>

\* the derived Serialize of Task
TaskWrites(t) ==
    <<<<"{">>>>
    \o KeyWrites(TRUE, NameId) \o <<U32ToString(t.id)>>
    \o KeyWrites(FALSE, NameDescription) \o StringWrites(t.description)
    \o KeyWrites(FALSE, NameCompleted) \o <<SerializeBool(t.completed)>>
    \o EndWrites(1, "}")

SerializeTask(t) == Concat(TaskWrites(t))

\* the writes of to_writer_pretty for the vector tasks
VecWrites(tasks) ==
    IF tasks = <<>> THEN <<<<"[">>, <<"]">>>>
    ELSE <<<<"[">>>>
         \o Concat([i \in 1..Len(tasks) |->
                      BeginWrites(i = 1, 1) \o TaskWrites(tasks[i])])
         \o EndWrites(0, "]")

\* the text to_writer_pretty writes
to_writer_pretty(tasks) == Concat(VecWrites(tasks))

(***************************************************************************)
(* serde_json::from_str::<Vec<Task>>: a recursive-descent parser over the  *)
(* text.  A parse result is [ok, pos, val]; pos is the index of the next   *)
(* unread character.  Covered: whitespace; an array of tasks, each an      *)
(* object or the tuple [id, description, completed]; strings with the      *)
(* escapes \" \\ \/ \b \f \n \r \t and \uXXXX (surrogate pairs included),  *)
(* raw control characters rejected; unsigned integers with the u32 range   *)
(* check; booleans; fields in any order; unknown fields with any JSON      *)
(* value (ignored); duplicate and missing fields (errors); trailing        *)
(* characters (error).                                                     *)
(***************************************************************************)
Fail == [ok |-> FALSE]

Ok(pos, val) == [ok |-> TRUE, pos |-> pos, val |-> val]

At(s, i, c) == i <= Len(s) /\ s[i] = c

RECURSIVE SkipWs(_, _)
SkipWs(s, i) ==
    IF i <= Len(s) /\ s[i] \in Whitespace THEN SkipWs(s, i + 1) ELSE i

\* does the literal lit start at position i of s
Starts(s, i, lit) ==
    /\ i + Len(lit) - 1 <= Len(s)
    /\ \A k \in 1..Len(lit) : s[i + k - 1] = lit[k]

Unescape(c) ==
    CASE c = Quote     -> Quote
      [] c = Backslash -> Backslash
      [] c = "/"       -> "/"
      [] c = "n"       -> Newline
      [] c = "t"       -> Tab
      [] c = "r"       -> "\r"
      [] c = "b"       -> Backspace
      [] c = "f"       -> FormFeed

EscapeLetters == {Quote, Backslash, "/", "n", "t", "r", "b", "f"}

\* the four hexadecimal digits at position i, in either case, as a number
decode_hex_escape(s, i) ==
    IF i + 3 <= Len(s) /\ \A k \in 0..3 : s[i + k] \in HexChars
    THEN Ok(i + 4,
            HexVal(s[i]) * 4096 + HexVal(s[i + 1]) * 256
            + HexVal(s[i + 2]) * 16 + HexVal(s[i + 3]))
    ELSE Fail

\* the surrogates of UTF-16: leading U+D800..U+DBFF, trailing U+DC00..U+DFFF
LeadingSurrogate(n) == n >= 55296 /\ n <= 56319

TrailingSurrogate(n) == n >= 56320 /\ n <= 57343

\* The characters of a string up to its closing quote; i is past the
\* opening quote, acc holds the characters read so far.
RECURSIVE ParseStringBody(_, _, _)
\* after \uXXXX with a leading surrogate n1 and the \u that follows it: n2
\* is the second escape, which must be a trailing surrogate
SurrogatePair(s, acc, n1, n2) ==
    IF ~n2.ok \/ ~TrailingSurrogate(n2.val) THEN Fail
    ELSE ParseStringBody(s, n2.pos,
             acc \o encode_utf8((n1 - 55296) * 1024 + (n2.val - 56320)
                                + 65536))

\* after \u: n is the escape read.  A surrogate must come as a pair.
UnicodeEscape(s, acc, n) ==
    IF ~n.ok \/ TrailingSurrogate(n.val) THEN Fail
    ELSE IF LeadingSurrogate(n.val)
    THEN IF At(s, n.pos, Backslash) /\ At(s, n.pos + 1, "u")
         THEN SurrogatePair(s, acc, n.val, decode_hex_escape(s, n.pos + 2))
         ELSE Fail
    ELSE ParseStringBody(s, n.pos, acc \o encode_utf8(n.val))

\* parse_escape: after the backslash, at position i
ParseEscape(s, i, acc) ==
    IF i > Len(s) THEN Fail
    ELSE IF s[i] \in EscapeLetters
    THEN ParseStringBody(s, i + 1, Append(acc, Unescape(s[i])))
    ELSE IF s[i] = "u" THEN UnicodeEscape(s, acc, decode_hex_escape(s, i + 1))
    ELSE Fail

ParseStringBody(s, i, acc) ==
    IF i > Len(s) THEN Fail
    ELSE IF s[i] = Quote THEN Ok(i + 1, acc)
    ELSE IF s[i] = Backslash THEN ParseEscape(s, i + 1, acc)
    ELSE IF s[i] \in ControlChars THEN Fail
    ELSE ParseStringBody(s, i + 1, Append(acc, s[i]))

ParseString(s, i) ==
    IF At(s, i, Quote) THEN ParseStringBody(s, i + 1, <<>>) ELSE Fail

\* the digits of an integer that does not start with 0; a value over u32::MAX fails
RECURSIVE ParseDigits(_, _, _)
ParseDigits(s, i, acc) ==
    IF i <= Len(s) /\ s[i] \in DigitChars
    THEN LET t  == acc[2] * 10 + DigitVal(s[i])
             hi == acc[1] * 10 + t \div Half
         IN  IF hi >= Half THEN Fail
             ELSE ParseDigits(s, i + 1, <<hi, t % Half>>)
    ELSE Ok(i, acc)

\* a JSON number read as u32: no sign, no leading zero, no fraction or exponent
NumberEnd(s, r) ==
    IF r.ok /\ r.pos <= Len(s) /\ s[r.pos] \in {".", "e", "E"} THEN Fail
    ELSE r

ParseU32(s, i) ==
    IF ~(i <= Len(s) /\ s[i] \in DigitChars) THEN Fail
    ELSE IF s[i] # "0" THEN NumberEnd(s, ParseDigits(s, i, <<0, 0>>))
    ELSE IF i + 1 <= Len(s) /\ s[i + 1] \in DigitChars THEN Fail
    ELSE NumberEnd(s, Ok(i + 1, <<0, 0>>))

LitTrue == <<"t", "r", "u", "e">>

LitFalse == <<"f", "a", "l", "s", "e">>

LitNull == <<"n", "u", "l", "l">>

ParseBool(s, i) ==
    IF Starts(s, i, LitTrue) THEN Ok(i + Len(LitTrue), TRUE)
    ELSE IF Starts(s, i, LitFalse) THEN Ok(i + Len(LitFalse), FALSE)
    ELSE Fail

(***************************************************************************)
(* The value of a field the struct does not have (IgnoredAny): any JSON    *)
(* value is read and dropped (Deserializer::ignore_value).  The results    *)
(* carry the value TRUE.                                                   *)
(***************************************************************************)
RECURSIVE SkipDigits(_, _)
SkipDigits(s, i) ==
    IF i <= Len(s) /\ s[i] \in DigitChars THEN SkipDigits(s, i + 1) ELSE i

\* a string up to its closing quote, i past the opening quote: escapes and
\* control characters are checked, a \uXXXX escape only for its four digits
RECURSIVE ignore_str(_, _)
ignore_escape(s, i) ==
    IF i > Len(s) THEN Fail
    ELSE IF s[i] \in EscapeLetters THEN ignore_str(s, i + 1)
    ELSE IF s[i] = "u" /\ decode_hex_escape(s, i + 1).ok
    THEN ignore_str(s, i + 5)
    ELSE Fail

ignore_str(s, i) ==
    IF i > Len(s) THEN Fail
    ELSE IF s[i] = Quote THEN Ok(i + 1, TRUE)
    ELSE IF s[i] = Backslash THEN ignore_escape(s, i + 1)
    ELSE IF s[i] \in ControlChars THEN Fail
    ELSE ignore_str(s, i + 1)

\* after e or E: an optional sign and at least one digit
ignore_exponent(s, i) ==
    IF i <= Len(s) /\ s[i] \in {"+", "-"}
    THEN IF i + 1 <= Len(s) /\ s[i + 1] \in DigitChars
         THEN Ok(SkipDigits(s, i + 1), TRUE) ELSE Fail
    ELSE IF i <= Len(s) /\ s[i] \in DigitChars
    THEN Ok(SkipDigits(s, i), TRUE)
    ELSE Fail

\* after the digits of the fraction, at position j
FractionEnd(s, j) ==
    IF j <= Len(s) /\ s[j] \in {"e", "E"} THEN ignore_exponent(s, j + 1)
    ELSE Ok(j, TRUE)

\* after the point: at least one digit, then an optional exponent
ignore_decimal(s, i) ==
    IF i <= Len(s) /\ s[i] \in DigitChars
    THEN FractionEnd(s, SkipDigits(s, i))
    ELSE Fail

\* after the digits of the integer part, at position j
IntegerEnd(s, j) ==
    IF At(s, j, ".") THEN ignore_decimal(s, j + 1) ELSE FractionEnd(s, j)

\* a number after its optional sign: 0 or digits not starting with 0, then
\* an optional fraction and exponent
ignore_integer(s, i) ==
    IF ~(i <= Len(s) /\ s[i] \in DigitChars) THEN Fail
    ELSE IF s[i] # "0" THEN IntegerEnd(s, SkipDigits(s, i))
    ELSE IF i + 1 <= Len(s) /\ s[i + 1] \in DigitChars THEN Fail
    ELSE IntegerEnd(s, i + 1)

RECURSIVE ignore_value(_, _)
\* The elements of an ignored array.  IgnoreElements expects a value at i.
RECURSIVE IgnoreElements(_, _)
\* after an element, at position j: "," and the next element, or "]"
IgnoreElementsNext(s, j) ==
    IF At(s, j, ",") THEN IgnoreElements(s, SkipWs(s, j + 1))
    ELSE IF At(s, j, "]") THEN Ok(j + 1, TRUE)
    ELSE Fail

\* v is the ignored element
IgnoreElementsAfter(s, v) ==
    IF ~v.ok THEN Fail ELSE IgnoreElementsNext(s, SkipWs(s, v.pos))

IgnoreElements(s, i) == IgnoreElementsAfter(s, ignore_value(s, i))

\* The members of an ignored object.  IgnoreMembers expects a key at i.
RECURSIVE IgnoreMembers(_, _)
\* after a member, at position j: "," and the next member, or "}"
IgnoreMembersNext(s, j) ==
    IF At(s, j, ",") THEN IgnoreMembers(s, SkipWs(s, j + 1))
    ELSE IF At(s, j, "}") THEN Ok(j + 1, TRUE)
    ELSE Fail

\* v is the ignored value of a member
IgnoreMembersAfter(s, v) ==
    IF ~v.ok THEN Fail ELSE IgnoreMembersNext(s, SkipWs(s, v.pos))

\* after the key of a member, at position colon
IgnoreMemberValue(s, colon) ==
    IF ~At(s, colon, ":") THEN Fail
    ELSE IgnoreMembersAfter(s, ignore_value(s, SkipWs(s, colon + 1)))

\* k is the ignored key
IgnoreMemberKey(s, k) ==
    IF ~k.ok THEN Fail ELSE IgnoreMemberValue(s, SkipWs(s, k.pos))

IgnoreMembers(s, i) ==
    IF At(s, i, Quote) THEN IgnoreMemberKey(s, ignore_str(s, i + 1)) ELSE Fail

\* after "[", at position j: "]" or the elements
IgnoreArray(s, j) ==
    IF At(s, j, "]") THEN Ok(j + 1, TRUE) ELSE IgnoreElements(s, j)

\* after "{", at position j: "}" or the members
IgnoreObject(s, j) ==
    IF At(s, j, "}") THEN Ok(j + 1, TRUE) ELSE IgnoreMembers(s, j)

ignore_value(s, i) ==
    IF At(s, i, Quote) THEN ignore_str(s, i + 1)
    ELSE IF Starts(s, i, LitNull) THEN Ok(i + Len(LitNull), TRUE)
    ELSE IF Starts(s, i, LitTrue) THEN Ok(i + Len(LitTrue), TRUE)
    ELSE IF Starts(s, i, LitFalse) THEN Ok(i + Len(LitFalse), TRUE)
    ELSE IF At(s, i, "[") THEN IgnoreArray(s, SkipWs(s, i + 1))
    ELSE IF At(s, i, "{") THEN IgnoreObject(s, SkipWs(s, i + 1))
    ELSE IF At(s, i, "-") THEN ignore_integer(s, i + 1)
    ELSE ignore_integer(s, i)

FieldNames == {"id", "description", "completed"}

FieldOf(key) ==
    CASE key = NameId          -> "id"
      [] key = NameDescription -> "description"
      [] key = NameCompleted   -> "completed"
      [] OTHER                 -> "other"

ParseField(s, i, name) ==
    CASE name = "id"          -> ParseU32(s, i)
      [] name = "description" -> ParseString(s, i)
      [] name = "completed"   -> ParseBool(s, i)
      [] OTHER                -> ignore_value(s, i)

\* the fields read so far, with the value val for the field name
PutField(got, name, val) ==
    IF name \in FieldNames
    THEN [f \in DOMAIN got \cup {name} |-> IF f = name THEN val ELSE got[f]]
    ELSE got

\* The members of an object (visit_map of the derived Deserialize), one
\* step of the parser per operator.  ParseMembers expects a key at position
\* i; got maps the fields read so far to their values.
RECURSIVE ParseMembers(_, _, _)
\* after a member, at position j: "," and the next member, or "}"
MembersNext(s, j, got) ==
    IF At(s, j, ",") THEN ParseMembers(s, SkipWs(s, j + 1), got)
    ELSE IF At(s, j, "}") /\ DOMAIN got = FieldNames
    THEN Ok(j + 1, Task(got.id, got.description, got.completed))
    ELSE Fail

\* after the value v of the field name
MembersAfterValue(s, name, v, got) ==
    IF ~v.ok THEN Fail
    ELSE MembersNext(s, SkipWs(s, v.pos), PutField(got, name, v.val))

\* after the key of the field name, at position colon: ":" and the value;
\* a field of the struct given twice is an error
MembersAfterKey(s, name, colon, got) ==
    IF name \in DOMAIN got \/ ~At(s, colon, ":") THEN Fail
    ELSE MembersAfterValue(s, name,
             ParseField(s, SkipWs(s, colon + 1), name), got)

\* k is the parsed key
MembersKey(s, k, got) ==
    IF ~k.ok THEN Fail
    ELSE MembersAfterKey(s, FieldOf(k.val), SkipWs(s, k.pos), got)

ParseMembers(s, i, got) == MembersKey(s, ParseString(s, i), got)

\* The tuple form of a task (visit_seq of the derived Deserialize): the
\* three values in declaration order, no more and no fewer.
\* c is the parsed flag, j the position after it: "]"
TupleEnd(s, id, description, c, j) ==
    IF At(s, j, "]") THEN Ok(j + 1, Task(id, description, c)) ELSE Fail

TupleCompleted(s, id, description, c) ==
    IF ~c.ok THEN Fail
    ELSE TupleEnd(s, id, description, c.val, SkipWs(s, c.pos))

\* after the description d, at position j: "," and the flag
TupleAfterDescription(s, id, d, j) ==
    IF ~At(s, j, ",") THEN Fail
    ELSE TupleCompleted(s, id, d, ParseBool(s, SkipWs(s, j + 1)))

TupleDescription(s, id, d) ==
    IF ~d.ok THEN Fail
    ELSE TupleAfterDescription(s, id, d.val, SkipWs(s, d.pos))

\* after the id, at position j: "," and the description
TupleAfterId(s, id, j) ==
    IF ~At(s, j, ",") THEN Fail
    ELSE TupleDescription(s, id, ParseString(s, SkipWs(s, j + 1)))

TupleId(s, id) ==
    IF ~id.ok THEN Fail ELSE TupleAfterId(s, id.val, SkipWs(s, id.pos))

ParseTuple(s, i) == TupleId(s, ParseU32(s, i))

\* one Task: an object with the fields id, description and completed, or
\* the array of their three values
ParseTask(s, i) ==
    IF At(s, i, "{")
    THEN ParseMembers(s, SkipWs(s, i + 1), [f \in {} |-> TRUE])
    ELSE IF At(s, i, "[") THEN ParseTuple(s, SkipWs(s, i + 1))
    ELSE Fail

\* The elements of the array.  ParseElements expects an element at i.
RECURSIVE ParseElements(_, _, _)
\* after an element, at position j: "," and the next element, or "]"
ElementsNext(s, j, acc) ==
    IF At(s, j, ",") THEN ParseElements(s, SkipWs(s, j + 1), acc)
    ELSE IF At(s, j, "]") THEN Ok(j + 1, acc)
    ELSE Fail

\* t is the parsed element
ElementsAfter(s, t, acc) ==
    IF ~t.ok THEN Fail
    ELSE ElementsNext(s, SkipWs(s, t.pos), Append(acc, t.val))

ParseElements(s, i, acc) == ElementsAfter(s, ParseTask(s, i), acc)

\* the end of the text: only whitespace may follow the array
DocumentEnd(s, r) ==
    IF r.ok /\ SkipWs(s, r.pos) = Len(s) + 1 THEN r ELSE Fail

\* after "[", at position j: "]" or the elements
ArrayBody(s, j) ==
    IF At(s, j, "]") THEN DocumentEnd(s, Ok(j + 1, <<>>))
    ELSE DocumentEnd(s, ParseElements(s, j, <<>>))

ArrayStart(s, i) ==
    IF ~At(s, i, "[") THEN Fail ELSE ArrayBody(s, SkipWs(s, i + 1))

from_str(s) == ArrayStart(s, SkipWs(s, 1))

(***************************************************************************)
(* The texts the commands print.                                           *)
(***************************************************************************)
MsgTaskAdded ==
    <<"T", "a", "s", "k", " ", "a", "d", "d", "e", "d", ".">>

MsgNoTasks ==
    <<"N", "o", " ", "t", "a", "s", "k", "s", " ", "a", "v", "a", "i",
    "l", "a", "b", "l", "e", ".">>

MsgTasks ==
    <<"T", "a", "s", "k", "s", ":">>

MsgTaskRemoved ==
    <<"T", "a", "s", "k", " ", "r", "e", "m", "o", "v", "e", "d", ".">>

MsgNoMatch ==
    <<"N", "o", " ", "t", "a", "s", "k", "s", " ", "m", "a", "t", "c",
    "h", "e", "d", " ", "t", "h", "e", " ", "q", "u", "e", "r", "y", ".">>

WordCompleted ==
    <<"C", "o", "m", "p", "l", "e", "t", "e", "d">>

WordPending ==
    <<"P", "e", "n", "d", "i", "n", "g">>

MsgNotFoundHead ==
    <<"T", "a", "s", "k", " ", "w", "i", "t", "h", " ", "i", "d", " ">>

MsgNotFoundTail ==
    <<" ", "n", "o", "t", " ", "f", "o", "u", "n", "d", ".">>

MsgToggledHead ==
    <<"T", "a", "s", "k", " ", "'">>

MsgToggledMid ==
    <<"'", " ", "i", "s", " ", "n", "o", "w", " ">>

MsgEditedHead ==
    <<"T", "a", "s", "k", " ", "w", "i", "t", "h", " ", "I", "D", " ">>

MsgEditedTail ==
    <<" ", "w", "a", "s", " ", "u", "p", "d", "a", "t", "e", "d", ".">>

StatusWord(t) == IF t.completed THEN WordCompleted ELSE WordPending

\* "{}. {} - {}" of list_tasks and fuzzy_search
TaskLine(t) ==
    U32ToString(t.id) \o <<".", " ">> \o t.description
    \o <<" ", "-", " ">> \o StatusWord(t)

\* "Task with id {} not found."
NotFoundLine(id) == MsgNotFoundHead \o U32ToString(id) \o MsgNotFoundTail

\* "Task '{}' is now {}."
ToggledLine(t) ==
    MsgToggledHead \o t.description \o MsgToggledMid \o StatusWord(t)
    \o <<".">>

\* "Task with ID {} was updated."
EditedLine(id) == MsgEditedHead \o U32ToString(id) \o MsgEditedTail

(***************************************************************************)
(* The persistent file TASK_FILE (main.rs 9).  perm is what the process    *)
(* may do with the file, or with its directory when there is no file:      *)
(* "rw", "r" (read, but not write or create) or "w" (write, but not read). *)
(* full holds when the file can take no byte (no space left, a quota or a  *)
(* file size limit): it can be opened and truncated, and every write to it *)
(* fails.  bytes is its contents.                                          *)
(***************************************************************************)
TASK_FILE(exists, perm, bytes) ==
    [exists |-> exists, perm |-> perm, full |-> FALSE, bytes |-> bytes]

NoFile == TASK_FILE(FALSE, "rw", <<>>)

\* the file f where it can take no byte
Full(f) == [f EXCEPT !.full = TRUE]

\* the byte a write beyond the end of the file leaves in the gap
NulByte == "<00>"

\* File::open (main.rs 60): fails on a missing file and on one it may not read
OpenFails(f) == ~f.exists \/ f.perm = "w"

\* read_to_string (main.rs 64): fails on contents that are not UTF-8
ReadFails(f) == ~from_utf8(f.bytes)

\* .unwrap_or_else(|_| Vec::new()) (main.rs 66) on the parse result r
UnwrapOrEmpty(r) == IF r.ok THEN r.val ELSE <<>>

\* variant: a parse error is unwrapped, not replaced by the empty vector
load_tasks_unwrap(f) ==
    IF OpenFails(f) THEN [panic |-> "", tasks |-> <<>>]
    ELSE IF ReadFails(f) \/ ~from_str(f.bytes).ok
         THEN [panic |-> "Could not read file", tasks |-> <<>>]
    ELSE [panic |-> "", tasks |-> from_str(f.bytes).val]

\* load_tasks on the bytes read from the open file (main.rs 62-66)
Contents(bytes) ==
    IF ~from_utf8(bytes)
    THEN [panic |-> "Could not read file", tasks |-> <<>>]
    ELSE [panic |-> "", tasks |-> UnwrapOrEmpty(from_str(bytes))]

\* load_tasks (main.rs 59-70): [panic, tasks]; panic is "" or the expect message
load_tasks(f) ==
    IF OpenFails(f) THEN [panic |-> "", tasks |-> <<>>]
    ELSE Contents(f.bytes)

\* variant: the file is opened without truncate(true)
Truncated_not(f) == [f EXCEPT !.exists = TRUE]

\* OpenOptions .write(true).create(true).truncate(true).open (main.rs 73-77):
\* the file exists and is empty
Truncated(f) == [f EXCEPT !.exists = TRUE, !.bytes = <<>>]

\* save_tasks (main.rs 72-80): [panic, file]; opens with write, create and
\* truncate, then writes the pretty-printed vector.  The open fails when the
\* process may not write the file or create it; a write that fails leaves
\* the file truncated.
save_tasks(f, tasks) ==
    IF f.perm = "r" THEN [panic |-> "Could not open file", file |-> f]
    ELSE IF f.full
    THEN [panic |-> "Could not write to file", file |-> Truncated(f)]
    ELSE [panic |-> "",
          file  |-> [Truncated(f) EXCEPT !.bytes = to_writer_pretty(tasks)]]

(***************************************************************************)
(* The command handlers, as functions from the file before the command to  *)
(* the command's outcome: the file after it, the exit status (0, 1 from    *)
(* process::exit(1), 101 from a panic), the lines written to stdout and    *)
(* stderr, the panic message ("" when there is none) and the vector that   *)
(* load_tasks returned to the handler.                                     *)
(***************************************************************************)
Outcome(f, exit, stdout, stderr, loaded) ==
    [file |-> f, exit |-> exit, stdout |-> stdout, stderr |-> stderr,
     panic |-> "", loaded |-> loaded]

Panicked(f, msg, loaded) ==
    [file |-> f, exit |-> 101, stdout |-> <<>>, stderr |-> <<>>,
     panic |-> msg, loaded |-> loaded]

\* variant: the id of the first task is taken for the largest
MaxId_first(tasks) == IF tasks = <<>> THEN U32(0) ELSE tasks[1].id

\* tasks.iter().map(|t| t.id).max().unwrap_or(0)  (main.rs 84)
MaxId(tasks) ==
    IF tasks = <<>> THEN U32(0)
    ELSE LET ids == {tasks[i].id : i \in 1..Len(tasks)}
         IN  CHOOSE m \in ids : \A x \in ids : ~U32Less(m, x)

\* variant: the id is taken from the number of tasks
next_id_by_count(tasks) == U32(Len(tasks) + 1)

\* variant: the + 1 is missing
next_id_no_increment(tasks) == MaxId(tasks)

\* ... + 1 (main.rs 84): the sum overflows when the largest id is u32::MAX
next_id(tasks) == U32Succ(MaxId(tasks))

NextIdOverflows(tasks) == MaxId(tasks) = U32_MAX

\* variant: the index of the last task with the id
Position_last(tasks, id) ==
    IF \E i \in 1..Len(tasks) : tasks[i].id = id
    THEN CHOOSE i \in 1..Len(tasks) :
            /\ tasks[i].id = id
            /\ \A j \in (i + 1)..Len(tasks) : tasks[j].id # id
    ELSE 0

\* tasks.iter().position(|t| t.id == id) (main.rs 117) and
\* tasks.iter_mut().find(|t| t.id == id) (main.rs 129, 147):
\* the index of the first task with the id, 0 for None
Position(tasks, id) ==
    IF \E i \in 1..Len(tasks) : tasks[i].id = id
    THEN CHOOSE i \in 1..Len(tasks) :
            /\ tasks[i].id = id
            /\ \A j \in 1..(i - 1) : tasks[j].id # id
    ELSE 0

\* variant: Vec::swap_remove(index): the last task takes the place of the
\* removed one
RemoveAt_swap(tasks, index) ==
    IF index = Len(tasks) THEN SubSeq(tasks, 1, Len(tasks) - 1)
    ELSE [SubSeq(tasks, 1, Len(tasks) - 1) EXCEPT ![index] = tasks[Len(tasks)]]

\* Vec::remove(index) (main.rs 118)
RemoveAt(tasks, index) ==
    SubSeq(tasks, 1, index - 1) \o SubSeq(tasks, index + 1, Len(tasks))

\* variant: the task is marked completed
Toggled_set(t) == Task(t.id, t.description, TRUE)

\* task.completed = !task.completed (main.rs 130)
Toggled(t) == Task(t.id, t.description, ~t.completed)

\* variant: the task is rebuilt as a new, pending one
Edited_fresh(t, new_description) == Task(t.id, new_description, FALSE)

\* task.description = new_description (main.rs 148)
Edited(t, new_description) == Task(t.id, new_description, t.completed)

\* the end of a handler that loaded l and saved with result s: the panic of
\* save_tasks, or the line printed after it
AfterSave(s, l, line) ==
    IF s.panic # "" THEN Panicked(s.file, s.panic, l.tasks)
    ELSE Outcome(s.file, 0, <<line>>, <<>>, l.tasks)

\* variant: the vector is saved before the error is reported
NotFound_saving(f, l, id) ==
    Outcome(save_tasks(f, l.tasks).file, 1, <<>>, <<NotFoundLine(id)>>,
            l.tasks)

\* eprintln!("Task with id {} not found.", id); process::exit(1)
NotFound(f, l, id) == Outcome(f, 1, <<>>, <<NotFoundLine(id)>>, l.tasks)

\* The handlers.  Each is given as name(f, ...) == NameLoaded(f, load_tasks(f),
\* ...): the first statement of the handler, and the rest of it on the
\* loaded vector l.

\* variant: the new task is put in front of the others
AddLoaded_front(f, l, description, profile) ==
    IF l.panic # "" THEN Panicked(f, l.panic, l.tasks)
    ELSE IF NextIdOverflows(l.tasks) /\ profile = "debug"
    THEN Panicked(f, "attempt to add with overflow", l.tasks)
    ELSE AfterSave(
             save_tasks(f, <<Task(next_id(l.tasks), description, FALSE)>>
                           \o l.tasks),
             l, MsgTaskAdded)

\* add_task after load_tasks (main.rs 84-91).  profile is the build: with
\* overflow checks ("debug") the addition panics on overflow, without
\* ("release") it wraps.
AddLoaded(f, l, description, profile) ==
    IF l.panic # "" THEN Panicked(f, l.panic, l.tasks)
    ELSE IF NextIdOverflows(l.tasks) /\ profile = "debug"
    THEN Panicked(f, "attempt to add with overflow", l.tasks)
    ELSE AfterSave(
             save_tasks(f, Append(l.tasks,
                                  Task(next_id(l.tasks), description, FALSE))),
             l, MsgTaskAdded)

\* add_task (main.rs 82-92)
add_task(f, description, profile) ==
    AddLoaded(f, load_tasks(f), description, profile)

\* variant: list writes the loaded vector back
ListLoaded_saving(f, l) ==
    IF l.panic # "" THEN Panicked(f, l.panic, l.tasks)
    ELSE Outcome(save_tasks(f, l.tasks).file, 0,
                 IF l.tasks = <<>> THEN <<MsgNoTasks>>
                 ELSE <<MsgTasks>>
                      \o [i \in 1..Len(l.tasks) |-> TaskLine(l.tasks[i])],
                 <<>>, l.tasks)

\* list_tasks after load_tasks (main.rs 96-112)
ListLoaded(f, l) ==
    IF l.panic # "" THEN Panicked(f, l.panic, l.tasks)
    ELSE IF l.tasks = <<>> THEN Outcome(f, 0, <<MsgNoTasks>>, <<>>, l.tasks)
    ELSE Outcome(f, 0,
             <<MsgTasks>> \o [i \in 1..Len(l.tasks) |-> TaskLine(l.tasks[i])],
             <<>>, l.tasks)

\* list_tasks (main.rs 94-113)
list_tasks(f) == ListLoaded(f, load_tasks(f))

\* remove_task after load_tasks (main.rs 117-124)
RemoveLoaded(f, l, id) ==
    LET index == Position(l.tasks, id)
    IN  IF l.panic # "" THEN Panicked(f, l.panic, l.tasks)
        ELSE IF index # 0
        THEN AfterSave(save_tasks(f, RemoveAt(l.tasks, index)), l,
                       MsgTaskRemoved)
        ELSE NotFound(f, l, id)

\* remove_task (main.rs 115-125)
remove_task(f, id) == RemoveLoaded(f, load_tasks(f), id)

\* toggle_task_completed after load_tasks (main.rs 129-142)
ToggleLoaded(f, l, id) ==
    LET index == Position(l.tasks, id)
    IN  IF l.panic # "" THEN Panicked(f, l.panic, l.tasks)
        ELSE IF index # 0
        THEN AfterSave(
                 save_tasks(f, [l.tasks EXCEPT ![index] = Toggled(@)]),
                 l, ToggledLine(Toggled(l.tasks[index])))
        ELSE NotFound(f, l, id)

\* toggle_task_completed (main.rs 127-143)
toggle_task_completed(f, id) == ToggleLoaded(f, load_tasks(f), id)

\* edit_task after load_tasks (main.rs 147-154)
EditLoaded(f, l, id, new_description) ==
    LET index == Position(l.tasks, id)
    IN  IF l.panic # "" THEN Panicked(f, l.panic, l.tasks)
        ELSE IF index # 0
        THEN AfterSave(
                 save_tasks(f, [l.tasks EXCEPT
                                  ![index] = Edited(@, new_description)]),
                 l, EditedLine(id))
        ELSE NotFound(f, l, id)

\* edit_task (main.rs 145-155)
edit_task(f, id, new_description) ==
    EditLoaded(f, load_tasks(f), id, new_description)

(***************************************************************************)
(* SkimMatcherV2::default().fuzzy_match(choice, pattern).is_some()         *)
(* (main.rs 159, 173).  The matcher is code of the crate fuzzy-matcher,    *)
(* which is not part of the sources; it is modelled as spec.md 4.3         *)
(* describes it: there is a score exactly when the characters of the       *)
(* pattern occur in the choice in order, not necessarily next to each      *)
(* other.                                                                  *)
(***************************************************************************)
RECURSIVE SubsequenceFrom(_, _, _, _)
SubsequenceFrom(choice, i, pattern, j) ==
    IF j > Len(pattern) THEN TRUE
    ELSE IF i > Len(choice) THEN FALSE
    ELSE IF choice[i] = pattern[j]
         THEN SubsequenceFrom(choice, i + 1, pattern, j + 1)
         ELSE SubsequenceFrom(choice, i + 1, pattern, j)

fuzzy_match(choice, pattern) == SubsequenceFrom(choice, 1, pattern, 1)

\* format!("{} {} {}", id, description, status) (main.rs 163-172)
task_str(t) ==
    U32ToString(t.id) \o <<" ">> \o t.description \o <<" ">> \o StatusWord(t)

\* variant: the loop ends at the first task that matches
Matches_first(tasks, query) ==
    IF \A i \in 1..Len(tasks) : ~fuzzy_match(task_str(tasks[i]), query)
    THEN <<>>
    ELSE <<tasks[CHOOSE i \in 1..Len(tasks) :
                    /\ fuzzy_match(task_str(tasks[i]), query)
                    /\ \A j \in 1..(i - 1) :
                          ~fuzzy_match(task_str(tasks[j]), query)]>>

\* the tasks a search prints, in the order of the loop (main.rs 162-186)
Matches(tasks, query) ==
    SelectSeq(tasks, LAMBDA t : fuzzy_match(task_str(t), query))

\* the end of fuzzy_search (main.rs 188-190) with the matching tasks found
SearchFound(f, l, found) ==
    IF found = <<>> THEN Outcome(f, 0, <<MsgNoMatch>>, <<>>, l.tasks)
    ELSE Outcome(f, 0, [i \in 1..Len(found) |-> TaskLine(found[i])], <<>>,
                 l.tasks)

\* fuzzy_search after load_tasks (main.rs 159-190)
SearchLoaded(f, l, query) ==
    IF l.panic # "" THEN Panicked(f, l.panic, l.tasks)
    ELSE SearchFound(f, l, Matches(l.tasks, query))

\* fuzzy_search (main.rs 157-191)
fuzzy_search(f, query) == SearchLoaded(f, load_tasks(f), query)

(***************************************************************************)
(* State.  Each step is one invocation of the program (main, main.rs       *)
(* 193-204) running to its exit.                                           *)
(*   file        the persistent file                                       *)
(*   cmd         the last command run: [op, id, text]                      *)
(*   result      its exit status, output lines and panic message           *)
(*   prev        the file before the last command                          *)
(*   twice       [same, file]: same holds when the last two commands were  *)
(*               the same command; file is then the file before the first  *)
(*               of the two (and prev otherwise)                           *)
(*   removedIds  [on, ids]: the ids of the tasks removed so far, recorded  *)
(*               in the runs that start with on                            *)
(*   addRun      [valid, descs]: the descriptions of the adds run in a row *)
(*               on a collection that was empty; valid while nothing else  *)
(*               has run since                                             *)
(*   addOrder    [on, ids]: the ids of the tasks added and not removed     *)
(*               since, in the order in which they were added, recorded in *)
(*               the runs that start with on                               *)
(*   rt          the save/load experiment: [pc, ts, loaded]                *)
(*   procs       the invocations that run at the same time, step by step:  *)
(*               for each its position pc, command, the bytes read so far  *)
(*               (buf), loaded vector, vector to save, the writes of the   *)
(*               save still to make (left) and the offset of its handle    *)
(*               (off), exit status and output                             *)
(*   saves       [overlap, last]: whether two saves of procs overlapped,   *)
(*               and the invocation whose save ended last (0 for none)     *)
(*   sched       [turn, switches]: the invocation of procs that took the   *)
(*               last step (0 for none), and how many times the step went  *)
(*               to the other while that one had not exited                *)
(***************************************************************************)
VARIABLES file, cmd, result, prev, twice, removedIds, addRun, addOrder, rt,
          procs, saves, sched

vars ==
    <<file, cmd, result, prev, twice, removedIds, addRun, addOrder, rt,
      procs, saves, sched>>

\* the largest id an add may assign in the explored runs
MaxNewId == 2

\* the longest vector of the save/load experiment
MaxRtLen == 2

Descriptions == {<<"F", "i", "x">>, <<"d", Quote, Backslash>>}

Queries == {<<"2">>, <<"F", "x">>}

\* the ids given to remove, edit and toggle: every id an add can assign and
\* one that is never assigned
CmdIds == {U32(i) : i \in 1..MaxNewId} \cup {U32(999)}

Profiles == {"debug", "release"}

Command(op, id, text) == [op |-> op, id |-> id, text |-> text]

NoCommand == Command("none", U32(0), <<>>)

NoResult ==
    [exit |-> 0, stdout |-> <<>>, stderr |-> <<>>, panic |-> ""]

EmptyFile == TASK_FILE(TRUE, "rw", <<>>)

EmptyArrayFile == TASK_FILE(TRUE, "rw", to_writer_pretty(<<>>))

RtIdle == [pc |-> "idle", ts |-> <<>>, loaded |-> <<>>]

\* the invocations that can run at the same time
Procs == {1, 2}

\* invocation p's neighbour
Other(p) == 3 - p

\* an invocation of command c at position pc that has done nothing yet
ProcAt(pc, c) ==
    [pc |-> pc, cmd |-> c, buf |-> <<>>, hint |-> 0, cap |-> 0,
     start_cap |-> 0,
     loaded |-> <<>>, tasks |-> <<>>,
     left |-> <<>>, off |-> 0, exit |-> 0, stdout |-> <<>>, stderr |-> <<>>,
     panic |-> "", raced |-> FALSE, torn |-> FALSE]

NoProcs == [p \in Procs |-> ProcAt("none", NoCommand)]

NoSaves == [overlap |-> FALSE, last |-> 0]

NoSched == [turn |-> 0, switches |-> 0]

\* a fresh working directory: no file, or an empty one
FreshFiles == {NoFile, EmptyFile, EmptyArrayFile}

\* nothing was added yet; on says whether addOrder is kept
NoAddOrder(on) == [on |-> on, ids |-> <<>>]

\* no command has run yet; recording says whether removedIds is kept
InitHistory(recording) ==
    /\ cmd = NoCommand
    /\ result = NoResult
    /\ prev = file
    /\ twice = [same |-> FALSE, file |-> file]
    /\ removedIds = [on |-> recording, ids |-> {}]
    /\ addRun = [valid |-> FALSE, descs |-> <<>>]
    /\ procs = NoProcs
    /\ saves = NoSaves
    /\ sched = NoSched

Init ==
    /\ file \in FreshFiles
    /\ rt = RtIdle
    /\ InitHistory(FALSE)
    /\ addOrder = NoAddOrder(TRUE)

\* the step of one invocation: command c run on the current file, outcome o
Run(c, o) ==
    LET before == o.loaded
    IN  /\ file' = o.file
        /\ cmd' = c
        /\ result' = [exit |-> o.exit, stdout |-> o.stdout,
                      stderr |-> o.stderr, panic |-> o.panic]
        /\ prev' = file
        /\ twice' = IF c = cmd THEN [same |-> TRUE, file |-> prev]
                    ELSE [same |-> FALSE, file |-> file]
        /\ removedIds' =
             IF removedIds.on /\ c.op = "remove" /\ o.exit = 0
             THEN [removedIds EXCEPT !.ids = @ \cup {c.id}] ELSE removedIds
        /\ addRun' =
             IF c.op = "add" /\ o.exit = 0 /\ (before = <<>> \/ addRun.valid)
             THEN [valid |-> TRUE,
                   descs |-> IF before = <<>> THEN <<c.text>>
                             ELSE Append(addRun.descs, c.text)]
             ELSE [valid |-> FALSE, descs |-> <<>>]
        /\ addOrder' =
             IF addOrder.on /\ c.op = "add" /\ o.exit = 0
             THEN [addOrder EXCEPT
                     !.ids = Append(SelectSeq(@, LAMBDA x : x # next_id(before)),
                                    next_id(before))]
             ELSE IF addOrder.on /\ c.op = "remove" /\ o.exit = 0
             THEN [addOrder EXCEPT !.ids = SelectSeq(@, LAMBDA x : x # c.id)]
             ELSE addOrder
        /\ UNCHANGED <<rt, procs, saves, sched>>

\* the explored runs stop adding when the next id would pass MaxNewId
AddWithinBound ==
    ~U32Less(U32(MaxNewId), next_id(load_tasks(file).tasks))

\* Commands::Add (main.rs 197)
Add ==
    /\ rt.pc = "idle"
    /\ AddWithinBound
    /\ \E description \in Descriptions, profile \in Profiles :
          Run(Command("add", U32(0), description),
              add_task(file, description, profile))

\* Commands::List (main.rs 198)
List ==
    /\ rt.pc = "idle"
    /\ Run(Command("list", U32(0), <<>>), list_tasks(file))

\* Commands::Remove (main.rs 199)
Remove ==
    /\ rt.pc = "idle"
    /\ \E id \in CmdIds :
          Run(Command("remove", id, <<>>), remove_task(file, id))

\* Commands::Toggle (main.rs 200)
Toggle ==
    /\ rt.pc = "idle"
    /\ \E id \in CmdIds :
          Run(Command("toggle", id, <<>>), toggle_task_completed(file, id))

\* Commands::Edit (main.rs 201)
Edit ==
    /\ rt.pc = "idle"
    /\ \E id \in CmdIds, description \in Descriptions :
          Run(Command("edit", id, description),
              edit_task(file, id, description))

\* Commands::Search (main.rs 202)
Search ==
    /\ rt.pc = "idle"
    /\ \E query \in Queries :
          Run(Command("search", U32(0), query), fuzzy_search(file, query))

Next == Add \/ List \/ Remove \/ Toggle \/ Edit \/ Search

Spec == Init /\ [][Next]_vars

(***************************************************************************)
(* The same commands with the removed ids recorded.                        *)
(***************************************************************************)
InitReuse ==
    /\ file \in FreshFiles
    /\ rt = RtIdle
    /\ InitHistory(TRUE)
    /\ addOrder = NoAddOrder(TRUE)

SpecReuse == InitReuse /\ [][Next]_vars

(***************************************************************************)
(* The same commands on a file the program finds in its directory: written *)
(* by an earlier run, cut short, written by something else, with           *)
(* permissions that keep the program from reading, writing or creating it, *)
(* or with no room to write it.                                            *)
(***************************************************************************)
SampleTasks ==
    <<Task(U32(1), <<"F", "i", "x">>, FALSE),
      Task(U32(2), <<"d", Quote, Backslash>>, TRUE)>>

SampleText == to_writer_pretty(SampleTasks)

\* a write that stopped half way
TruncatedText == SubSeq(SampleText, 1, Len(SampleText) \div 2)

NotJsonText == <<"h", "i">>

\* one task, not in an array
ObjectText == SerializeTask(SampleTasks[1])

\* [{"id":4294967296,"description":"","completed":true}]: id over u32::MAX
IdTooBigText ==
    <<"[", "{">> \o KeyId
    \o <<":", "4", "2", "9", "4", "9", "6", "7", "2", "9", "6", ",">>
    \o KeyDescription \o <<":", Quote, Quote, ",">>
    \o KeyCompleted \o <<":">> \o LitTrue \o <<"}", "]">>

\* [{"id":1}]: fields missing
MissingFieldText == <<"[", "{">> \o KeyId \o <<":", "1", "}", "]">>

\* [{"id":1,"description":"<U+0001>","completed":true}]: a control
\* character that is not escaped
RawControlText ==
    <<"[", "{">> \o KeyId \o <<":", "1", ",">>
    \o KeyDescription \o <<":", Quote, "<01>", Quote, ",">>
    \o KeyCompleted \o <<":">> \o LitTrue \o <<"}", "]">>

\* a file that does not parse as Vec<Task>
UnparseableTexts ==
    {<<>>, TruncatedText, NotJsonText, ObjectText, IdTooBigText,
     MissingFieldText, RawControlText}

FoundFiles ==
    {NoFile,
     TASK_FILE(FALSE, "r", <<>>),
     Full(NoFile),
     TASK_FILE(TRUE, "rw", SampleText),
     TASK_FILE(TRUE, "w", SampleText),
     TASK_FILE(TRUE, "r", SampleText),
     Full(TASK_FILE(TRUE, "rw", SampleText)),
     TASK_FILE(TRUE, "rw", <<InvalidByte>>)}
    \cup {TASK_FILE(TRUE, "rw", text) : text \in UnparseableTexts}

InitFile ==
    /\ file \in FoundFiles
    /\ rt = RtIdle
    /\ InitHistory(FALSE)
    /\ addOrder = NoAddOrder(FALSE)

SpecFile == InitFile /\ [][Next]_vars

(***************************************************************************)
(* The commands that change the file, from a fresh directory, on longer    *)
(* collections: adds of one description, remove and toggle of every id an  *)
(* add can assign, and edit of the first two of them.                      *)
(***************************************************************************)
\* the largest id an add may assign in these runs
MaxOrderId == 3

OrderIds == {U32(i) : i \in 1..MaxOrderId}

OrderEditIds == {U32(1), U32(2)}

OrderDescription == <<"a">>

OrderNewDescription == <<"b">>

\* Commands::Add (main.rs 197)
OrderAdd ==
    /\ rt.pc = "idle"
    /\ ~U32Less(U32(MaxOrderId), next_id(load_tasks(file).tasks))
    /\ \E profile \in Profiles :
          Run(Command("add", U32(0), OrderDescription),
              add_task(file, OrderDescription, profile))

\* Commands::Remove (main.rs 199)
OrderRemove ==
    /\ rt.pc = "idle"
    /\ \E id \in OrderIds :
          Run(Command("remove", id, <<>>), remove_task(file, id))

\* Commands::Toggle (main.rs 200)
OrderToggle ==
    /\ rt.pc = "idle"
    /\ \E id \in OrderIds :
          Run(Command("toggle", id, <<>>), toggle_task_completed(file, id))

\* Commands::Edit (main.rs 201)
OrderEdit ==
    /\ rt.pc = "idle"
    /\ \E id \in OrderEditIds :
          Run(Command("edit", id, OrderNewDescription),
              edit_task(file, id, OrderNewDescription))

NextOrder == OrderAdd \/ OrderRemove \/ OrderToggle \/ OrderEdit

SpecOrder == Init /\ [][NextOrder]_vars

(***************************************************************************)
(* remove, toggle and edit on a file written by something else, with two   *)
(* records of the same id.                                                 *)
(***************************************************************************)
DuplicateTasks ==
    <<Task(U32(1), <<"F", "i", "x">>, FALSE),
      Task(U32(2), <<"x">>, FALSE),
      Task(U32(1), <<"d", Quote, Backslash>>, TRUE)>>

InitDuplicates ==
    /\ file = TASK_FILE(TRUE, "rw", to_writer_pretty(DuplicateTasks))
    /\ rt = RtIdle
    /\ InitHistory(FALSE)
    /\ addOrder = NoAddOrder(FALSE)

NextDuplicates == Remove \/ Toggle \/ Edit

SpecDuplicates == InitDuplicates /\ [][NextDuplicates]_vars

(***************************************************************************)
(* add, remove and toggle on a file written by something else, whose       *)
(* largest id is u32::MAX.                                                 *)
(***************************************************************************)
\* the longest collection of these runs
MaxLargestLen == 3

LargestIdTasks ==
    <<Task(U32(1), <<"x">>, FALSE),
      Task(U32_MAX, <<"F", "i", "x">>, TRUE)>>

InitLargestId ==
    /\ file = TASK_FILE(TRUE, "rw", to_writer_pretty(LargestIdTasks))
    /\ rt = RtIdle
    /\ InitHistory(FALSE)
    /\ addOrder = NoAddOrder(FALSE)

\* Commands::Add (main.rs 197)
LargestIdAdd ==
    /\ rt.pc = "idle"
    /\ Len(load_tasks(file).tasks) < MaxLargestLen
    /\ \E description \in Descriptions, profile \in Profiles :
          Run(Command("add", U32(0), description),
              add_task(file, description, profile))

NextLargestId == LargestIdAdd \/ Remove \/ Toggle

SpecLargestId == InitLargestId /\ [][NextLargestId]_vars

(***************************************************************************)
(* Searches on the collection of test_fuzzy_search (main.rs 283-290), with *)
(* toggles and removes between them.                                       *)
(***************************************************************************)
TestTasks ==
    <<Task(U32(1),
           <<"W", "r", "i", "t", "e", " ", "d", "o", "c", "u", "m", "e", "n",
             "t", "a", "t", "i", "o", "n">>,
           FALSE),
      Task(U32(2), <<"F", "i", "x", " ", "b", "u", "g">>, FALSE)>>

QueryDoc == <<"d", "o", "c">>

QueryTwo == <<"2">>

\* letters that both subjects have in order while they are pending
QueryBoth == <<"i", "g">>

\* queries on which the case of letters decides nothing: no letter of them
\* is in a subject in the other case at a place where it would complete a
\* match
TestQueries == {QueryDoc, QueryTwo, QueryBoth, <<"P", "g">>, <<"z">>}

InitSearch ==
    /\ file = TASK_FILE(TRUE, "rw", to_writer_pretty(TestTasks))
    /\ rt = RtIdle
    /\ InitHistory(FALSE)
    /\ addOrder = NoAddOrder(FALSE)

\* Commands::Search (main.rs 202)
SearchTest ==
    /\ rt.pc = "idle"
    /\ \E query \in TestQueries :
          Run(Command("search", U32(0), query), fuzzy_search(file, query))

NextSearch == SearchTest \/ Toggle \/ Remove

SpecSearch == InitSearch /\ [][NextSearch]_vars

(***************************************************************************)
(* Two invocations at the same time, one system call per step.  An         *)
(* invocation opens the file (File::open, main.rs 60), asks for its size   *)
(* and reads it until a read returns nothing (read_to_string, main.rs 64:  *)
(* each read asks for the spare capacity of the string, which starts at    *)
(* the size, and at most max_read_size, or for the PROBE_SIZE bytes of the *)
(* probe buffer), parses what it read                                      *)
(* (main.rs 66) and computes its vector, opens the file for writing, which *)
(* truncates it (main.rs 73-78), and writes the text (main.rs 79): the     *)
(* file is not buffered, so every piece the serializer hands over is one   *)
(* write at the offset of the handle.  After the last write it prints and  *)
(* exits.  It can be killed between the truncation and the last write.     *)
(* There is no lock: the steps of the two interleave.  The explored runs   *)
(* are those in which the processor goes from an invocation that has not   *)
(* exited to the other at most MaxSwitches times.                          *)
(***************************************************************************)
\* the most times, in the explored runs, that a step is taken by the other
\* invocation than the one of the last step while that one has not exited
MaxSwitches == 1

\* the first invocation adds, the second adds or removes
ConcCommands ==
    {<<Command("add", U32(0), <<"a">>), c>> :
        c \in {Command("add", U32(0), <<"b", "c">>),
               Command("remove", U32(1), <<>>)}}

ConcTasks == <<Task(U32(1), <<"x">>, TRUE)>>

ConcFiles == {NoFile, TASK_FILE(TRUE, "rw", to_writer_pretty(ConcTasks))}

InitConcurrent ==
    /\ file \in ConcFiles
    /\ procs \in {[p \in Procs |-> ProcAt("load", cs[p])] : cs \in ConcCommands}
    /\ saves = NoSaves
    /\ sched = NoSched
    /\ rt = RtIdle
    /\ cmd = NoCommand
    /\ result = NoResult
    /\ prev = file
    /\ twice = [same |-> FALSE, file |-> file]
    /\ removedIds = [on |-> FALSE, ids |-> {}]
    /\ addRun = [valid |-> FALSE, descs |-> <<>>]
    /\ addOrder = NoAddOrder(FALSE)

\* the history of the commands run one after another stays as it started
ConcFrame ==
    UNCHANGED <<cmd, result, prev, twice, removedIds, addRun, addOrder, rt>>

\* the bytes of a file after chunk is put at offset off; a gap between the
\* end of the file and the offset reads as NUL bytes
PutAt(bytes, off, chunk) ==
    [i \in 1..(IF Len(bytes) > off + Len(chunk) THEN Len(bytes)
               ELSE off + Len(chunk)) |->
        IF i > off /\ i <= off + Len(chunk) THEN chunk[i - off]
        ELSE IF i <= Len(bytes) THEN bytes[i]
        ELSE NulByte]

\* variant: every write starts at the beginning of the file
WriteAt_start(bytes, off, chunk) == PutAt(bytes, 0, chunk)

\* a write of the open file (main.rs 79): at the offset of the handle
WriteAt(bytes, off, chunk) == PutAt(bytes, off, chunk)

\* a step of invocation p comes after a step of the other, which has not
\* exited
Switches(p) ==
    sched.turn = Other(p) /\ procs[Other(p)].pc # "done"

\* invocation p may take the next step
MayRun(p) == ~Switches(p) \/ sched.switches < MaxSwitches

\* the schedule after a step of invocation p
Ran(p) ==
    [turn |-> p,
     switches |-> IF Switches(p) THEN sched.switches + 1
                  ELSE sched.switches]

\* invocation r at its exit
Exited(r, exit, stdout, stderr, panic) ==
    [r EXCEPT !.pc = "done", !.exit = exit, !.stdout = stdout,
              !.stderr = stderr, !.panic = panic]

\* the neighbour of invocation p has truncated the file and has not made
\* its last write (or was killed there)
NeighbourWrites(p) == procs[Other(p)].pc \in {"write", "killed"}

\* the neighbour of invocation p has not opened the file for writing yet
NeighbourBefore(p) ==
    procs[Other(p)].pc \in {"load", "stat", "read", "open"}

\* invocation p at the end of its load: raced when its neighbour has not
\* opened the file for writing yet, torn when the whole load, from the
\* open, fell between its neighbour's truncation and last write
Seen(p) ==
    [procs[p] EXCEPT
        !.raced = NeighbourBefore(p),
        !.torn = @ /\ NeighbourWrites(p)]

\* the handler of invocation r from load_tasks, which returned l, to the
\* call of save_tasks (main.rs 83-90, 116-124)
Computed(r, l, profile) ==
    IF l.panic # "" THEN Exited(r, 101, <<>>, <<>>, l.panic)
    ELSE IF r.cmd.op = "add"
    THEN IF NextIdOverflows(l.tasks) /\ profile = "debug"
         THEN Exited([r EXCEPT !.loaded = l.tasks], 101, <<>>, <<>>,
                     "attempt to add with overflow")
         ELSE [r EXCEPT
                 !.pc = "open", !.loaded = l.tasks,
                 !.tasks = Append(l.tasks,
                                  Task(next_id(l.tasks), r.cmd.text, FALSE))]
    ELSE IF Position(l.tasks, r.cmd.id) # 0
    THEN [r EXCEPT
            !.pc = "open", !.loaded = l.tasks,
            !.tasks = RemoveAt(l.tasks, Position(l.tasks, r.cmd.id))]
    ELSE Exited([r EXCEPT !.loaded = l.tasks], 1, <<>>,
                <<NotFoundLine(r.cmd.id)>>, "")

\* the bytes of the probe buffer of read_to_string (PROBE_SIZE of std::io)
PROBE_SIZE == 32

\* the least capacity a vector of bytes grows to (MIN_NON_ZERO_CAP of
\* alloc::raw_vec)
MIN_NON_ZERO_CAP == 8

\* Vec::try_reserve: the capacity of a vector of len bytes and capacity cap
\* once there is room for additional more
Reserved(cap, len, additional) ==
    IF len + additional <= cap THEN cap
    ELSE IF 2 * cap >= len + additional /\ 2 * cap >= MIN_NON_ZERO_CAP
    THEN 2 * cap
    ELSE IF len + additional >= MIN_NON_ZERO_CAP THEN len + additional
    ELSE MIN_NON_ZERO_CAP

\* the most a read of read_to_string asks for grows in steps of this
\* (DEFAULT_BUF_SIZE of std::io)
DEFAULT_BUF_SIZE == 8192

\* the most one read into the string asks for when the file had size bytes
\* at the start of read_to_string: size + 1024 rounded up to a multiple of
\* DEFAULT_BUF_SIZE
max_read_size(size) ==
    ((size + 1024 + DEFAULT_BUF_SIZE - 1) \div DEFAULT_BUF_SIZE)
        * DEFAULT_BUF_SIZE

\* load_tasks: File::open (main.rs 60).  When it fails the load is over,
\* with the empty vector.
PLoad(p) ==
    /\ procs[p].pc = "load"
    /\ MayRun(p)
    /\ sched' = Ran(p)
    /\ IF OpenFails(file)
       THEN \E profile \in Profiles :
               procs' = [procs EXCEPT
                           ![p] = Computed(Seen(p),
                                           [panic |-> "", tasks |-> <<>>],
                                           profile)]
       ELSE procs' = [procs EXCEPT
                        ![p].pc = "stat", ![p].torn = NeighbourWrites(p)]
    /\ UNCHANGED <<file, saves>>
    /\ ConcFrame

\* load_tasks: the start of read_to_string (main.rs 64): it asks for the
\* size the file has now (the offset of the new handle is 0) and reserves
\* as much for the string
PStat(p) ==
    /\ procs[p].pc = "stat"
    /\ MayRun(p)
    /\ sched' = Ran(p)
    /\ procs' = [procs EXCEPT
                   ![p].pc = "read",
                   ![p].hint = Len(file.bytes),
                   ![p].cap = Reserved(0, 0, Len(file.bytes)),
                   ![p].start_cap = Reserved(0, 0, Len(file.bytes))]
    /\ UNCHANGED <<file, saves>>
    /\ ConcFrame

\* the next read of invocation r goes to the probe buffer: the string is
\* full at the capacity it started with (default_read_to_end of std::io)
ProbeRead(r) == Len(r.buf) = r.cap /\ r.cap = r.start_cap

\* the capacity of the string of invocation r at its next read into it:
\* a full string gets room for PROBE_SIZE bytes first
ReadCap(r) ==
    IF Len(r.buf) = r.cap THEN Reserved(r.cap, Len(r.buf), PROBE_SIZE)
    ELSE r.cap

\* the count the next read of invocation r asks for: the probe buffer, or
\* the spare capacity of the string and at most max_read_size
Asked(r) ==
    IF ProbeRead(r) THEN PROBE_SIZE
    ELSE IF ReadCap(r) - Len(r.buf) <= max_read_size(r.hint)
    THEN ReadCap(r) - Len(r.buf)
    ELSE max_read_size(r.hint)

\* what a read of count bytes gets from the offset of a handle that has
\* read buf
Unread(bytes, buf, count) ==
    SubSeq(bytes, Len(buf) + 1,
           IF Len(bytes) <= Len(buf) + count THEN Len(bytes)
           ELSE Len(buf) + count)

\* invocation r after a read that got the bytes got: from the probe
\* buffer they are appended (Vec::extend_from_slice)
HasRead(r, got) ==
    [r EXCEPT
        !.buf = @ \o got,
        !.cap = IF ProbeRead(r) THEN Reserved(r.cap, Len(r.buf), Len(got))
                ELSE ReadCap(r)]

\* load_tasks: one read of read_to_string (main.rs 64).  It gets the bytes
\* the file has beyond the offset, at most the count asked for; when it
\* gets none the contents are complete, and are parsed and computed on
\* (main.rs 66).
PRead(p) ==
    /\ procs[p].pc = "read"
    /\ MayRun(p)
    /\ sched' = Ran(p)
    /\ IF Unread(file.bytes, procs[p].buf, Asked(procs[p])) # <<>>
       THEN procs' = [procs EXCEPT
                        ![p] = HasRead(@, Unread(file.bytes, procs[p].buf,
                                                 Asked(procs[p])))]
       ELSE \E profile \in Profiles :
               procs' = [procs EXCEPT
                           ![p] = Computed(Seen(p), Contents(procs[p].buf),
                                           profile)]
    /\ UNCHANGED <<file, saves>>
    /\ ConcFrame

\* save_tasks: the open (main.rs 73-78)
POpen(p) ==
    /\ procs[p].pc = "open"
    /\ MayRun(p)
    /\ sched' = Ran(p)
    /\ IF file.perm = "r"
       THEN /\ procs' = [procs EXCEPT
                           ![p] = Exited(@, 101, <<>>, <<>>,
                                         "Could not open file")]
            /\ UNCHANGED <<file, saves>>
       ELSE /\ file' = Truncated(file)
            /\ procs' = [procs EXCEPT
                           ![p].pc = "write",
                           ![p].left = VecWrites(procs[p].tasks)]
            /\ saves' = [saves EXCEPT
                           !.overlap = @ \/ procs[Other(p)].pc = "write"]
    /\ ConcFrame

\* invocation r after the write of the first of its pieces: at its exit
\* (println!, main.rs 91, 120) when that was the last
Written(r) ==
    IF Len(r.left) = 1
    THEN Exited([r EXCEPT !.left = <<>>, !.off = @ + Len(Head(r.left))], 0,
                IF r.cmd.op = "add" THEN <<MsgTaskAdded>>
                ELSE <<MsgTaskRemoved>>,
                <<>>, "")
    ELSE [r EXCEPT !.left = Tail(@), !.off = @ + Len(Head(r.left))]

\* save_tasks: one write of to_writer_pretty (main.rs 79)
PWrite(p) ==
    /\ procs[p].pc = "write"
    /\ MayRun(p)
    /\ sched' = Ran(p)
    /\ IF file.full
       THEN /\ procs' = [procs EXCEPT
                           ![p] = Exited(@, 101, <<>>, <<>>,
                                         "Could not write to file")]
            /\ UNCHANGED <<file, saves>>
       ELSE /\ file' = [file EXCEPT
                          !.bytes = WriteAt(@, procs[p].off,
                                            Head(procs[p].left))]
            /\ procs' = [procs EXCEPT ![p] = Written(@)]
            /\ saves' = IF Len(procs[p].left) = 1
                        THEN [saves EXCEPT !.last = p] ELSE saves
    /\ ConcFrame

\* the invocation is killed after the truncation, before its last write
\* (at any time after its last step, which is as much as right after it)
Kill(p) ==
    /\ procs[p].pc = "write"
    /\ sched.turn = p
    /\ procs' = [procs EXCEPT ![p].pc = "killed"]
    /\ UNCHANGED <<file, saves, sched>>
    /\ ConcFrame

NextConcurrent ==
    \E p \in Procs :
        PLoad(p) \/ PStat(p) \/ PRead(p) \/ POpen(p) \/ PWrite(p) \/ Kill(p)

SpecConcurrent == InitConcurrent /\ [][NextConcurrent]_vars

(***************************************************************************)
(* save_tasks followed by load_tasks, on vectors of any ids, descriptions  *)
(* and flags.                                                              *)
(***************************************************************************)
RtIds == {U32(0), U32(1234567), U32_MAX}

\* the empty description, one with the characters of the escapes, and one
\* with control characters, DEL and a character of two bytes (U+00E9)
RtDescriptions ==
    {<<>>,
     <<Quote, Backslash, "n", "/", "u">>,
     <<Newline, Tab, "\r", Backspace, FormFeed, NulByte, "<1F>", "<7F>",
       "<C3>", "<A9>", "]">>}

RtTasks ==
    {Task(id, d, c) : id \in RtIds, d \in RtDescriptions, c \in BOOLEAN}

RtInputs == UNION {[1..n -> RtTasks] : n \in 0..MaxRtLen}

RtFiles ==
    {NoFile, TASK_FILE(TRUE, "rw", SampleText),
     TASK_FILE(TRUE, "rw", TruncatedText)}

InitRoundTrip ==
    /\ file \in RtFiles
    /\ rt \in {[pc |-> "start", ts |-> ts, loaded |-> <<>>] : ts \in RtInputs}
    /\ InitHistory(FALSE)
    /\ addOrder = NoAddOrder(FALSE)

\* the history of a save/load experiment stays as it started
RtFrame ==
    UNCHANGED <<cmd, result, prev, twice, removedIds, addRun, addOrder,
                procs, saves, sched>>

\* the step after save_tasks with result s
RtSaved(s) ==
    /\ file' = s.file
    /\ rt' = [rt EXCEPT !.pc = IF s.panic = "" THEN "saved" ELSE "failed"]
    /\ RtFrame

\* save_tasks(&ts)
RtSave ==
    /\ rt.pc = "start"
    /\ RtSaved(save_tasks(file, rt.ts))

\* the step after load_tasks with result l
RtLoaded(l) ==
    /\ rt' = [rt EXCEPT !.pc = IF l.panic = "" THEN "loaded" ELSE "failed",
                        !.loaded = l.tasks]
    /\ UNCHANGED file
    /\ RtFrame

\* load_tasks()
RtLoad ==
    /\ rt.pc = "saved"
    /\ RtLoaded(load_tasks(file))

NextRoundTrip == RtSave \/ RtLoad

SpecRoundTrip == InitRoundTrip /\ [][NextRoundTrip]_vars

(***************************************************************************)
(* Properties.  Stored is the collection in the file, Before the one in    *)
(* the file before the last command, both as load_tasks reads them.        *)
(***************************************************************************)
Stored == load_tasks(file).tasks

Before == load_tasks(prev).tasks

IdsOf(tasks) == {tasks[i].id : i \in 1..Len(tasks)}

Succeeded(op) == cmd.op = op /\ result.exit = 0

\* C1: an add never assigns an id that a removed task had (ids are not
\* reused after deletion), also when the removed task had the largest id.
C1_NoIdReuse ==
    Succeeded("add") => Stored[Len(Stored)].id \notin removedIds.ids

\* C2: no two tasks of the stored collection have the same id.
C2_UniqueIds ==
    \A i, j \in 1..Len(Stored) : Stored[i].id = Stored[j].id => i = j

C2_Witness ==
    /\ Succeeded("add")
    /\ Len(Stored) >= 2
    /\ Len(Before) = Len(Stored) - 1

\* C3: after N adds in a row on an empty or absent collection the stored
\* collection has exactly N tasks, the k-th with id k, the k-th description
\* and completed = false.
C3_AddsNumberFromOne ==
    addRun.valid =>
        /\ Len(Stored) = Len(addRun.descs)
        /\ \A k \in 1..Len(Stored) :
              Stored[k] = Task(U32(k), addRun.descs[k], FALSE)

C3_Witness ==
    /\ addRun.valid
    /\ Len(addRun.descs) >= 2
    /\ addRun.descs[1] # addRun.descs[2]

\* C4: remove, edit or toggle of an id the stored collection does not have
\* leaves the file as it was (an absent file stays absent), prints the
\* not-found line to stderr and exits with status 1, without a panic.
C4_NotFoundLeavesFile ==
    (cmd.op \in {"remove", "edit", "toggle"} /\ cmd.id \notin IdsOf(Before))
    => /\ file = prev
       /\ result.exit = 1
       /\ result.stderr = <<NotFoundLine(cmd.id)>>
       /\ result.stdout = <<>>
       /\ result.panic = ""

C4_Witness ==
    /\ cmd.op \in {"remove", "edit", "toggle"}
    /\ cmd.id \notin IdsOf(Before)
    /\ Before # <<>>
    /\ result.exit = 1

\* C5: after a remove of a present id the stored collection is one shorter,
\* has no task with that id, and every other task is unchanged and in the
\* same relative position (no renumbering).
C5_RemoveTakesOneOut ==
    (cmd.op = "remove" /\ cmd.id \in IdsOf(Before))
    => /\ result.exit = 0
       /\ Len(Stored) = Len(Before) - 1
       /\ cmd.id \notin IdsOf(Stored)
       /\ \E i \in 1..Len(Before) :
             /\ Before[i].id = cmd.id
             /\ \A k \in 1..Len(Stored) :
                   Stored[k] = IF k < i THEN Before[k] ELSE Before[k + 1]

C5_Witness ==
    /\ Succeeded("remove")
    /\ Len(Before) = 3
    /\ Before[1].id = cmd.id
    /\ Before[2].completed /\ ~Before[3].completed
    /\ Before[2].description = OrderNewDescription
    /\ Stored = <<Before[2], Before[3]>>

\* C6: save_tasks(ts) followed by load_tasks() returns ts (same length, order,
\* ids, descriptions and flags), whatever the file held before the save.
C6_RoundTrip ==
    rt.pc \in {"saved", "loaded", "failed"} =>
        /\ rt.pc # "failed"
        /\ rt.pc = "loaded" => rt.loaded = rt.ts

C6_Witness ==
    /\ rt.pc = "loaded"
    /\ Len(rt.ts) >= 2
    /\ rt.ts[1].id = U32_MAX
    /\ Quote \in {rt.ts[2].description[i] : i \in 1..Len(rt.ts[2].description)}
    /\ from_str(file.bytes).ok

\* C7: when the file exists and cannot be opened for reading, the command
\* aborts with a non-zero exit status and the file is not overwritten.
C7_UnreadableFileIsFatal ==
    (cmd.op # "none" /\ prev.exists /\ OpenFails(prev))
    => /\ result.exit # 0
       /\ file = prev

\* the file parses as no Vec<Task>, though it can be read and written
Unparseable(f) ==
    /\ f.exists
    /\ f.perm = "rw"
    /\ ~ReadFails(f)
    /\ ~from_str(f.bytes).ok

\* save_tasks can open or create the file and write it
Writable(f) == f.perm # "r" /\ ~f.full

\* the file can be read and written and does not hold a Vec<Task>: its
\* bytes are no UTF-8 text, or text that does not parse
Corrupted(f) ==
    /\ f.exists
    /\ f.perm = "rw"
    /\ (ReadFails(f) \/ ~from_str(f.bytes).ok)

\* load_tasks returned the empty vector without an error on the file before
\* the last command, and the command ran as on an empty collection: list
\* reports no tasks, remove/edit/toggle report not-found and leave the file
\* as it was, add (where the file can be written) replaces the file by a
\* collection of one task with id 1
RanAsOnEmpty ==
    /\ load_tasks(prev) = [panic |-> "", tasks |-> <<>>]
    /\ (cmd.op # "add" \/ Writable(prev)) => result.panic = ""
    /\ cmd.op = "list" =>
          /\ result.exit = 0
          /\ result.stdout = <<MsgNoTasks>>
          /\ file = prev
    /\ cmd.op \in {"remove", "edit", "toggle"} =>
          /\ result.exit = 1
          /\ result.stderr = <<NotFoundLine(cmd.id)>>
          /\ file = prev
    /\ (cmd.op = "add" /\ Writable(prev)) =>
          /\ result.exit = 0
          /\ file.exists
          /\ file.bytes =
                to_writer_pretty(<<Task(U32(1), cmd.text, FALSE)>>)
          /\ Stored = <<Task(U32(1), cmd.text, FALSE)>>

\* C8 as stated: on an absent file and on every file whose contents are no
\* collection (corrupted: not UTF-8, or not parseable) load_tasks returns
\* the empty vector without an error and the command runs as on an empty
\* collection.
C8_CorruptedIsEmpty ==
    (cmd.op # "none" /\ (~prev.exists \/ Corrupted(prev))) => RanAsOnEmpty

\* C8, amended: on an absent file and on a file whose contents are UTF-8
\* text that does not parse, load_tasks returns the empty vector without
\* an error and the command runs as on an empty collection; on a file
\* whose contents are not UTF-8 every command panics with "Could not read
\* file", prints nothing and leaves the file as it was.
C8_UnparseableIsEmpty ==
    /\ (cmd.op # "none" /\ (~prev.exists \/ Unparseable(prev)))
          => RanAsOnEmpty
    /\ (cmd.op # "none" /\ Corrupted(prev) /\ ReadFails(prev))
          => /\ result.panic = "Could not read file"
             /\ result.exit = 101
             /\ result.stdout = <<>>
             /\ file = prev

C8_Witness ==
    /\ Succeeded("add")
    /\ Unparseable(prev)
    /\ prev.bytes = TruncatedText

\* two vectors of the same length with the same ids in the same positions
SameShape(old, new) ==
    /\ Len(new) = Len(old)
    /\ \A k \in 1..Len(old) : new[k].id = old[k].id

\* C9: toggle of a present id flips the completed flag of that task and
\* changes nothing else; the same toggle run twice in a row leaves the file
\* exactly as it was before the first.
C9_ToggleFlipsAndUndoes ==
    (cmd.op = "toggle" /\ cmd.id \in IdsOf(Before))
    => /\ result.exit = 0
       /\ SameShape(Before, Stored)
       /\ \A k \in 1..Len(Before) :
             /\ Stored[k].description = Before[k].description
             /\ Stored[k].completed =
                   IF Before[k].id = cmd.id THEN ~Before[k].completed
                   ELSE Before[k].completed
       /\ twice.same => file = twice.file

C9_Witness ==
    /\ Succeeded("toggle")
    /\ twice.same
    /\ Len(Stored) >= 2
    /\ \E k \in 1..Len(Stored) : Stored[k].id = cmd.id /\ Stored[k].completed

\* C10: edit of a present id sets the description of that task and changes
\* nothing else: ids, flags, length and order stay, and so does every other
\* task.
C10_EditChangesDescriptionOnly ==
    (cmd.op = "edit" /\ cmd.id \in IdsOf(Before))
    => /\ result.exit = 0
       /\ SameShape(Before, Stored)
       /\ \A k \in 1..Len(Before) :
             /\ Stored[k].completed = Before[k].completed
             /\ Stored[k].description =
                   IF Before[k].id = cmd.id THEN cmd.text
                   ELSE Before[k].description

C10_Witness ==
    /\ Succeeded("edit")
    /\ Len(Stored) >= 2
    /\ \E k \in 1..Len(Stored) :
          /\ Stored[k].id = cmd.id
          /\ Stored[k].completed
          /\ Before[k].description # cmd.text

\* the positions of the choice at which a match, in order, of the pattern's
\* character c can end when the characters before c can end at one of before
MatchEndsStep(choice, c, before) ==
    {i \in 1..Len(choice) : choice[i] = c /\ \E j \in before : j < i}

\* the positions at which a match of the first k characters of the pattern,
\* in order and not necessarily next to each other, can end (0 when k is 0)
RECURSIVE MatchEnds(_, _, _)
MatchEnds(choice, pattern, k) ==
    IF k = 0 THEN {0}
    ELSE MatchEndsStep(choice, pattern[k], MatchEnds(choice, pattern, k - 1))

\* the pattern is a subsequence of the choice
IsSubsequence(pattern, choice) ==
    MatchEnds(choice, pattern, Len(pattern)) # {}

\* the search exited with status 0 and printed the tasks found, one line
\* each in their order, or the no-match line when there are none
SearchPrinted(found) ==
    /\ result.exit = 0
    /\ result.stderr = <<>>
    /\ result.stdout = IF found = <<>> THEN <<MsgNoMatch>>
                       ELSE [i \in 1..Len(found) |-> TaskLine(found[i])]

\* C13: search prints exactly the stored tasks of whose subject
\* "<id> <description> <Completed|Pending>" the query is a subsequence
\* (the query's characters, in order), one line each in storage order, or
\* the no-match line when there is none, and exits with status 0; on the
\* two tasks of the test "doc" gives task 1 only and "2" gives task 2.
C13_SearchIsSubsequenceFilter ==
    cmd.op = "search"
    => /\ SearchPrinted(SelectSeq(Before,
              LAMBDA t : IsSubsequence(cmd.text, task_str(t))))
       /\ (Before = TestTasks /\ cmd.text = QueryDoc)
             => result.stdout = <<TaskLine(TestTasks[1])>>
       /\ (Before = TestTasks /\ cmd.text = QueryTwo)
             => \E i \in 1..Len(result.stdout) :
                    result.stdout[i] = TaskLine(TestTasks[2])

C13_Witness ==
    /\ cmd.op = "search"
    /\ cmd.text = QueryBoth
    /\ Len(Before) = 2
    /\ Before[2].completed
    /\ result.stdout = <<TaskLine(Before[1]), TaskLine(Before[2])>>

\* C14: add always succeeds on a collection that loads, also when its
\* largest id is u32::MAX: it exits with status 0 and stores the collection
\* with one task appended, whose id is positive and greater than every id
\* the collection had, with the given description and completed = false.
C14_AddAlwaysSucceeds ==
    (cmd.op = "add" /\ load_tasks(prev).panic = "")
    => /\ result.exit = 0
       /\ Len(Stored) = Len(Before) + 1
       /\ SubSeq(Stored, 1, Len(Before)) = Before
       /\ Stored[Len(Stored)].description = cmd.text
       /\ ~Stored[Len(Stored)].completed
       /\ U32Less(U32(0), Stored[Len(Stored)].id)
       /\ \A i \in 1..Len(Before) :
             U32Less(Before[i].id, Stored[Len(Stored)].id)

\* C16 as stated: list and search leave the file as it was (an absent file
\* stays absent) and exit with status 0 whatever the file is, and list
\* prints the no-tasks line exactly when the loaded collection is empty.
C16_ReadOnlyAlwaysExitsZero ==
    cmd.op \in {"list", "search"}
    => /\ file = prev
       /\ result.exit = 0
       /\ cmd.op = "list" => (result.stdout = <<MsgNoTasks>> <=> Before = <<>>)

\* C16, amended: list and search leave the file as it was, whatever it is;
\* they exit with status 0, list printing the no-tasks line exactly when
\* the loaded collection is empty, unless the file can be opened and its
\* contents are not UTF-8 text: then the command aborts with the panic of
\* load_tasks (status 101) and prints nothing.
C16_ReadOnly ==
    cmd.op \in {"list", "search"}
    => /\ file = prev
       /\ IF ~OpenFails(prev) /\ ReadFails(prev)
          THEN /\ result.exit = 101
               /\ result.panic = "Could not read file"
               /\ result.stdout = <<>>
          ELSE /\ result.exit = 0
               /\ result.panic = ""
               /\ cmd.op = "list" =>
                     (result.stdout = <<MsgNoTasks>> <=> Before = <<>>)

C16_Witness ==
    /\ cmd.op = "list"
    /\ Unparseable(prev)
    /\ prev.bytes = NotJsonText
    /\ result.exit = 0
    /\ result.stdout = <<MsgNoTasks>>

\* C17: when the collection has the id, also more than once, remove, edit
\* and toggle act on the first task with that id and on no other: remove
\* takes that one out and leaves the later ones with the id stored, edit
\* sets its description, toggle flips its flag.
C17_FirstOfDuplicates ==
    (cmd.op \in {"remove", "edit", "toggle"} /\ cmd.id \in IdsOf(Before))
    => /\ result.exit = 0
       /\ \E i \in 1..Len(Before) :
             /\ Before[i].id = cmd.id
             /\ \A j \in 1..(i - 1) : Before[j].id # cmd.id
             /\ cmd.op = "remove" =>
                   Stored = [k \in 1..(Len(Before) - 1) |->
                                IF k < i THEN Before[k] ELSE Before[k + 1]]
             /\ cmd.op = "edit" =>
                   Stored = [Before EXCEPT ![i].description = cmd.text]
             /\ cmd.op = "toggle" =>
                   Stored = [Before EXCEPT ![i].completed = ~@]

C17_Witness ==
    /\ Succeeded("remove")
    /\ \E i, j \in 1..Len(Before) :
          i < j /\ Before[i].id = cmd.id /\ Before[j].id = cmd.id
    /\ cmd.id \in IdsOf(Stored)
    /\ Len(Stored) = Len(Before) - 1

\* invocation p ended with status 0
Reported(p) == procs[p].pc = "done" /\ procs[p].exit = 0

\* the last task of a vector
LastOf(tasks) == tasks[Len(tasks)]

\* C11: lost update: when two invocations that change the file have both
\* loaded before either opened the file for writing, both report success
\* and their saves did not overlap, the stored collection is the vector of
\* the one whose save ended last and nothing of the other's change is in
\* it; two adds computed the same id, and the file holds what they loaded
\* and one new task, the one of the last save.
C11_LostUpdate ==
    \A p \in Procs :
        (/\ Reported(p) /\ Reported(Other(p))
         /\ procs[p].raced /\ procs[Other(p)].raced
         /\ ~saves.overlap
         /\ saves.last = p)
        => /\ procs[p].loaded = procs[Other(p)].loaded
           /\ Stored = procs[p].tasks
           /\ (procs[p].cmd.op = "add" /\ procs[Other(p)].cmd.op = "add")
                 => /\ LastOf(procs[p].tasks).id
                          = LastOf(procs[Other(p)].tasks).id
                    /\ Stored = Append(procs[p].loaded,
                                       Task(next_id(procs[p].loaded),
                                            procs[p].cmd.text, FALSE))

C11_Witness ==
    /\ Reported(1) /\ Reported(2)
    /\ procs[1].raced /\ procs[2].raced
    /\ ~saves.overlap
    /\ saves.last = 2
    /\ procs[1].cmd.op = "add" /\ procs[2].cmd.op = "add"
    /\ procs[1].cmd.text # procs[2].cmd.text
    /\ procs[1].loaded = ConcTasks
    /\ Len(Stored) = 2
    /\ Stored[2].description = procs[2].cmd.text

\* C15: save is not atomic: an invocation that loads after the other has
\* truncated the file and before the other's write has ended (or after the
\* other was killed there) gets the empty vector, without an error; when it
\* is an add and its own save is the last and overlaps no other, the file
\* then holds its new task alone, with id 1.
C15_TornLoadResets ==
    \A p \in Procs :
        /\ procs[p].torn => (procs[p].loaded = <<>> /\ procs[p].panic = "")
        /\ (/\ procs[p].torn
            /\ procs[p].cmd.op = "add"
            /\ Reported(p)
            /\ ~saves.overlap
            /\ saves.last = p)
           => Stored = <<Task(U32(1), procs[p].cmd.text, FALSE)>>

C15_Witness ==
    /\ procs[2].torn
    /\ procs[2].cmd.op = "add"
    /\ Reported(2)
    /\ saves.last = 2
    /\ procs[1].pc = "killed"
    /\ procs[1].cmd.op = "add"
    /\ procs[1].loaded = ConcTasks
    /\ Stored = <<Task(U32(1), procs[2].cmd.text, FALSE)>>

\* the ids of the stored collection, in storage order
StoredIds == [i \in 1..Len(Stored) |-> Stored[i].id]

\* C12: storage order is addition order: from an empty file, the stored
\* tasks are the tasks added and not removed since, in the order in which
\* they were added; a successful edit or toggle leaves every id at its
\* position, and after a successful remove the remaining tasks are in the
\* relative order they had before it.
C12_StorageOrderIsAdditionOrder ==
    /\ addOrder.on
    /\ StoredIds = addOrder.ids
    /\ (Succeeded("edit") \/ Succeeded("toggle")) => SameShape(Before, Stored)
    /\ Succeeded("remove") =>
          \A i, j \in 1..Len(Stored) :
              i < j => /\ 0 < Position(Before, Stored[i].id)
                       /\ Position(Before, Stored[i].id)
                             < Position(Before, Stored[j].id)

C12_Witness ==
    /\ Succeeded("remove")
    /\ Len(Before) = 3
    /\ cmd.id = Before[2].id
    /\ Len(Stored) = 2
    /\ Stored[1].description = OrderNewDescription
    /\ Stored[2].completed

\* C18: from an absent or empty file, the ids of the stored collection are
\* strictly increasing in storage order and every stored id is at least 1.
C18_IdsIncrease ==
    /\ \A i, j \in 1..Len(Stored) :
          i < j => U32Less(Stored[i].id, Stored[j].id)
    /\ \A i \in 1..Len(Stored) : U32Less(U32(0), Stored[i].id)

C18_Witness ==
    /\ Succeeded("remove")
    /\ Len(Stored) = 1
    /\ Stored[1].id = U32(2)
    /\ Stored[1].completed

=============================================================================
